---- MODULE Spec2Model ----
(***************************************************************************)
(* Deployment of a program binary through chunked loader-v3 transactions   *)
(* signed by a remote MPC signer (Fordefi).                                *)
(*                                                                         *)
(*   createTxPlan      src/src/tx-planner.ts                               *)
(*   signWithFordefi   src/src/close-buffer.ts (signers section)           *)
(*   main / executor   src/src/close-buffer.ts (run-with-retry section)    *)
(*   pollForSigned...  src/unnamed/part_002                                *)
(*   main (close)      src/src/close-buffer.ts (close-buffer section)      *)
(***************************************************************************)
EXTENDS Integers, Sequences, FiniteSets, TLC

VARIABLES
    binaryLen,        \* the program binary file: its length in bytes
    binarySeed,       \*   and the seed of its content
    pc,               \* position of main()
    ixs,              \* instruction list built by createTxPlan
    transactionPlan,  \* messages produced by the transaction planner
    status,           \* executor's result kind per message of the plan
    currentTx,        \* progress counter of main()
    attempt,          \* loop variable of executeTransactionMessage
    step,             \* await the running executeTransactionMessage is at
    pollAttempt,      \* loop variable of pollForSignedTransaction
    ledgerSlot,       \* number of getLatestBlockhash answers given so far
    latestBlockhash,  \* answer to the getLatestBlockhash of the running sign call
    jsonBody,         \* last request body posted to the signer
    rawSignedTx,      \* raw transaction returned by the last successful poll
    lastError,        \* error caught last
    txAttempts,       \* try blocks entered for the current message
    txPosts,          \* signing requests posted for the current message
    txSends,          \* sendTransaction calls made for the current message
    attemptStartSlot, \* ledgerSlot when the running try block was entered
    oracleState,      \* txData.state of the last getTx answer of the poll loop
    ledgerAccepts,    \* per message of the plan: broadcasts the ledger accepted
    bufferOnLedger,    \* the buffer account on the ledger: absent or funded
    reclaimed,        \* close instructions the ledger has applied to the buffer
    reclaimRun,       \* runs of the close-buffer utility started so far
    balance           \* lamports of the deployer vault (the fee payer) on the ledger

planVars == <<binaryLen, binarySeed, balance, ixs, transactionPlan>>
execVars == <<status, currentTx, attempt, step, pollAttempt, ledgerSlot,
              latestBlockhash, jsonBody, rawSignedTx, lastError,
              txAttempts, txPosts, txSends, attemptStartSlot, oracleState>>
ledgerVars == <<ledgerAccepts, bufferOnLedger, reclaimed, reclaimRun>>
vars == <<planVars, pc, execVars, ledgerVars>>

(***************************************************************************)
(* Bounds of the model.                                                    *)
(***************************************************************************)
MaxDataLen == 1900      \* longest program binary explored by PlanSpec
MaxSeed == 1            \* program binaries differ in content by a seed
MaxReclaimRuns == 2     \* runs of the close-buffer utility explored

(***************************************************************************)
(* Program constants.                                                      *)
(***************************************************************************)
chunkSize == 900
BUFFER_HEADER_SIZE == 37
PROGRAM_ACCOUNT_SIZE == 36
UPGRADE_HEADROOM == 10000
TRANSACTION_SIZE_LIMIT == 1232
maxRetries == 3
maxAttempts == 50
defaultFeeLamports == 5000

Min(a, b) == IF a < b THEN a ELSE b

\* Content of a program binary file: len bytes, byte i (0-based) a function
\* of the seed so that every window of the file is distinguishable.
ProgramBinary(len, seed) == [i \in 1..len |-> (seed + 7 * (i - 1)) % 256]

\* new Uint8Array(fs.readFileSync(programBinaryPath))
dataSize == ProgramBinary(binaryLen, binarySeed)

\* Variant of Slice: the end index is taken inclusive-exclusive one too early.
Slice_EndOffByOne(bytes, start, end) == SubSeq(bytes, start + 1, Min(end, Len(bytes)) - 1)

\* Uint8Array.prototype.slice(start, end): end is clamped to the length.
Slice(bytes, start, end) == SubSeq(bytes, start + 1, Min(end, Len(bytes)))

\* Addresses fixed before planning.
deployerVault == "deployerVault"
bufferAddress == "buffer"
programAddress == "program"
programDataAddress == "programData"
SYSTEM_PROGRAM == "systemProgram"
LOADER_V3_PROGRAM == "loaderV3"
SYSVAR_RENT == "sysvarRent"
SYSVAR_CLOCK == "sysvarClock"

\* Ledger rent-exemption minimum for an account of `size` bytes, as answered
\* by getMinimumBalanceForRentExemption.
RentExemption(size) == (size + 128) * 6960

getCreateAccountInstruction(payer, newAccount, lamports, space, owner) ==
    [kind |-> "CreateAccount", program |-> SYSTEM_PROGRAM,
     payer |-> payer, newAccount |-> newAccount, lamports |-> lamports,
     space |-> space, owner |-> owner,
     accounts |-> <<payer, newAccount>>, signers |-> {payer, newAccount},
     dataLen |-> 52]

getInitializeBufferInstruction(sourceAccount, bufferAuthority) ==
    [kind |-> "InitializeBuffer", program |-> LOADER_V3_PROGRAM,
     sourceAccount |-> sourceAccount, bufferAuthority |-> bufferAuthority,
     accounts |-> <<sourceAccount, bufferAuthority>>, signers |-> {},
     dataLen |-> 4]

\* data = u32 discriminator, u32 offset, u64 length prefix, bytes (unpadded)
getWriteInstruction(bufferAccount, bufferAuthority, offset, bytes) ==
    [kind |-> "Write", program |-> LOADER_V3_PROGRAM,
     bufferAccount |-> bufferAccount, bufferAuthority |-> bufferAuthority,
     offset |-> offset, bytes |-> bytes,
     accounts |-> <<bufferAccount, bufferAuthority>>,
     signers |-> {bufferAuthority},
     dataLen |-> 16 + Len(bytes)]

getDeployWithMaxDataLenInstruction(authority, buf, payer, progData, prog, maxDataLen) ==
    [kind |-> "DeployWithMaxDataLen", program |-> LOADER_V3_PROGRAM,
     authority |-> authority, bufferAccount |-> buf,
     payerAccount |-> payer, programDataAccount |-> progData,
     programAccount |-> prog, maxDataLen |-> maxDataLen,
     accounts |-> <<payer, progData, prog, buf, SYSVAR_RENT, SYSVAR_CLOCK,
                    SYSTEM_PROGRAM, authority>>,
     signers |-> {payer, authority},
     dataLen |-> 12]

\* loader.getCloseInstruction of the close-buffer utility.
getCloseInstruction(bufferOrProgramDataAccount, destinationAccount, authority) ==
    [kind |-> "Close", program |-> LOADER_V3_PROGRAM,
     bufferOrProgramDataAccount |-> bufferOrProgramDataAccount,
     destinationAccount |-> destinationAccount, authority |-> authority,
     accounts |-> <<bufferOrProgramDataAccount, destinationAccount, authority>>,
     signers |-> {authority},
     dataLen |-> 4]

\* Variant of the loop: `offset <= dataSize.length`.
RECURSIVE WriteBufferIxs_LoopLeq(_, _, _)
WriteBufferIxs_LoopLeq(data, offset, acc) ==
    IF offset <= Len(data)
    THEN WriteBufferIxs_LoopLeq(data, offset + chunkSize,
            Append(acc, getWriteInstruction(bufferAddress, deployerVault, offset,
                                            Slice(data, offset, offset + chunkSize))))
    ELSE acc

\* Variant of the loop: the slice end is `offset + chunkSize + 1`.
RECURSIVE WriteBufferIxs_LongSlice(_, _, _)
WriteBufferIxs_LongSlice(data, offset, acc) ==
    IF offset < Len(data)
    THEN WriteBufferIxs_LongSlice(data, offset + chunkSize,
            Append(acc, getWriteInstruction(bufferAddress, deployerVault, offset,
                                            Slice(data, offset, offset + chunkSize + 1))))
    ELSE acc

\* The while loop of createTxPlan: one Write instruction per chunkSize stride.
RECURSIVE WriteBufferIxs(_, _, _)
WriteBufferIxs(data, offset, acc) ==
    IF offset < Len(data)
    THEN WriteBufferIxs(data, offset + chunkSize,
            Append(acc, getWriteInstruction(bufferAddress, deployerVault, offset,
                                            Slice(data, offset, offset + chunkSize))))
    ELSE acc

\* chunkProgramData of the loader helpers: the same split as a generator.
RECURSIVE chunkProgramData(_, _, _, _)
chunkProgramData(programData, size, offset, acc) ==
    IF offset < Len(programData)
    THEN LET end == Min(offset + size, Len(programData))
         IN chunkProgramData(programData, size, end,
                Append(acc, [offset |-> offset, data |-> Slice(programData, offset, end)]))
    ELSE acc

\* Variant of CreateIxs: the deploy instruction pushed before the program
\* account's creation.
CreateIxs_DeployBeforeCreate(data, lamports, programAccountRent) ==
    <<getCreateAccountInstruction(deployerVault, bufferAddress, lamports,
                                  Len(data) + BUFFER_HEADER_SIZE, LOADER_V3_PROGRAM),
      getInitializeBufferInstruction(bufferAddress, deployerVault)>>
    \o WriteBufferIxs(data, 0, <<>>)
    \o <<getDeployWithMaxDataLenInstruction(deployerVault, bufferAddress, deployerVault,
                                            programDataAddress, programAddress,
                                            Len(data) + UPGRADE_HEADROOM),
         getCreateAccountInstruction(deployerVault, programAddress, programAccountRent,
                                     PROGRAM_ACCOUNT_SIZE, LOADER_V3_PROGRAM)>>

\* Variant of CreateIxs: the write instructions pushed after the deployment.
CreateIxs_WritesLast(data, lamports, programAccountRent) ==
    <<getCreateAccountInstruction(deployerVault, bufferAddress, lamports,
                                  Len(data) + BUFFER_HEADER_SIZE, LOADER_V3_PROGRAM),
      getInitializeBufferInstruction(bufferAddress, deployerVault)>>
    \o <<getCreateAccountInstruction(deployerVault, programAddress, programAccountRent,
                                     PROGRAM_ACCOUNT_SIZE, LOADER_V3_PROGRAM),
         getDeployWithMaxDataLenInstruction(deployerVault, bufferAddress, deployerVault,
                                            programDataAddress, programAddress,
                                            Len(data) + UPGRADE_HEADROOM)>>
    \o WriteBufferIxs(data, 0, <<>>)

\* The instruction list createTxPlan builds, given the two rent answers.
CreateIxs(data, lamports, programAccountRent) ==
    <<getCreateAccountInstruction(deployerVault, bufferAddress, lamports,
                                  Len(data) + BUFFER_HEADER_SIZE, LOADER_V3_PROGRAM),
      getInitializeBufferInstruction(bufferAddress, deployerVault)>>
    \o WriteBufferIxs(data, 0, <<>>)
    \o <<getCreateAccountInstruction(deployerVault, programAddress, programAccountRent,
                                     PROGRAM_ACCOUNT_SIZE, LOADER_V3_PROGRAM),
         getDeployWithMaxDataLenInstruction(deployerVault, bufferAddress, deployerVault,
                                            programDataAddress, programAddress,
                                            Len(data) + UPGRADE_HEADROOM)>>

(***************************************************************************)
(* Transaction planner (kit.createTransactionPlanner over a sequential     *)
(* instruction plan): instructions are appended to the current message     *)
(* while the compiled transaction stays within the packet limit.           *)
(***************************************************************************)
RECURSIVE SumSeq(_, _)
SumSeq(s, i) == IF i > Len(s) THEN 0 ELSE s[i] + SumSeq(s, i + 1)

Range(s) == {s[i] : i \in 1..Len(s)}

ShortVecSize(n) == IF n < 128 THEN 1 ELSE IF n < 16384 THEN 2 ELSE 3

InstructionSize(ix) ==
    1 + ShortVecSize(Len(ix.accounts)) + Len(ix.accounts)
      + ShortVecSize(ix.dataLen) + ix.dataLen

\* A message holds its instructions by reference: msg.instructions lists
\* their positions in the instruction list the plan was made from.
MessageSigners(list, msg) ==
    {msg.feePayer} \cup UNION {list[i].signers : i \in Range(msg.instructions)}

MessageAccounts(list, msg) ==
    {msg.feePayer}
    \cup UNION {Range(list[i].accounts) : i \in Range(msg.instructions)}
    \cup {list[i].program : i \in Range(msg.instructions)}

\* Bytes of the compiled v0 transaction: signatures, header, static accounts,
\* lifetime token, instructions, (empty) address table lookups.
TransactionMessageSize(list, msg) ==
    ShortVecSize(Cardinality(MessageSigners(list, msg)))
    + 64 * Cardinality(MessageSigners(list, msg))
    + 1 + 3
    + ShortVecSize(Cardinality(MessageAccounts(list, msg)))
    + 32 * Cardinality(MessageAccounts(list, msg))
    + 32
    + ShortVecSize(Len(msg.instructions))
    + SumSeq([j \in 1..Len(msg.instructions) |->
                 InstructionSize(list[msg.instructions[j]])], 1)
    + 1

\* createTransactionMessage callback: version 0, fee payer = deployer vault,
\* no lifetime yet.
createTransactionMessage == [feePayer |-> deployerVault, instructions |-> <<>>]

\* Variant of appendTransactionMessageInstruction: the instruction is put first.
appendTransactionMessageInstruction_Prepend(i, msg) ==
    [msg EXCEPT !.instructions = <<i>> \o @]

appendTransactionMessageInstruction(i, msg) ==
    [msg EXCEPT !.instructions = Append(@, i)]

\* Variant of TransactionPlanner: one message per instruction, nothing packed.
RECURSIVE TransactionPlanner_NoPacking(_, _, _)
TransactionPlanner_NoPacking(list, i, plan) ==
    IF i > Len(list) THEN plan
    ELSE TransactionPlanner_NoPacking(list, i + 1,
             Append(plan, appendTransactionMessageInstruction(
                              i, createTransactionMessage)))

RECURSIVE TransactionPlanner(_, _, _)
TransactionPlanner(list, i, plan) ==
    IF i > Len(list) THEN plan
    ELSE IF Len(plan) > 0
            /\ TransactionMessageSize(list,
                   appendTransactionMessageInstruction(i, plan[Len(plan)]))
               <= TRANSACTION_SIZE_LIMIT
         THEN TransactionPlanner(list, i + 1,
                  [plan EXCEPT ![Len(plan)] =
                       appendTransactionMessageInstruction(i, @)])
         ELSE TransactionPlanner(list, i + 1,
                  Append(plan, appendTransactionMessageInstruction(
                                   i, createTransactionMessage)))

(***************************************************************************)
(* createTxPlan                                                            *)
(***************************************************************************)
\* Both rent queries answer: the instruction list and the plan are built.
CreateTxPlan ==
    /\ pc = "start"
    /\ ixs' = CreateIxs(dataSize,
                        RentExemption(Len(dataSize) + BUFFER_HEADER_SIZE),
                        RentExemption(PROGRAM_ACCOUNT_SIZE))
    /\ transactionPlan' = TransactionPlanner(ixs', 1, <<>>)
    /\ status' = [k \in 1..Len(transactionPlan') |-> "pending"]
    /\ pc' = "planned"
    /\ UNCHANGED <<binaryLen, binarySeed, balance, currentTx, attempt, step, pollAttempt, ledgerSlot,
                   latestBlockhash, jsonBody, rawSignedTx, lastError,
                   txAttempts, txPosts, txSends, attemptStartSlot, oracleState>>
    /\ ledgerAccepts' = [k \in 1..Len(transactionPlan') |-> 0]
    /\ UNCHANGED <<bufferOnLedger, reclaimed, reclaimRun>>

\* Variant of CreateTxPlanRentError: the rejected query is swallowed and the
\* plan is built with a rent of zero.
CreateTxPlanRentError_ZeroRent ==
    /\ pc = "start"
    /\ ixs' = CreateIxs(dataSize, 0, RentExemption(PROGRAM_ACCOUNT_SIZE))
    /\ transactionPlan' = TransactionPlanner(ixs', 1, <<>>)
    /\ status' = [k \in 1..Len(transactionPlan') |-> "pending"]
    /\ pc' = "planned"
    /\ UNCHANGED <<binaryLen, binarySeed, balance, currentTx, attempt, step, pollAttempt, ledgerSlot,
                   latestBlockhash, jsonBody, rawSignedTx, lastError,
                   txAttempts, txPosts, txSends, attemptStartSlot, oracleState>>
    /\ ledgerAccepts' = [k \in 1..Len(transactionPlan') |-> 0]
    /\ UNCHANGED <<bufferOnLedger, reclaimed, reclaimRun>>

\* One of the two awaited rent queries rejects: createTxPlan rejects, main()
\* rejects with it, nothing is returned.
CreateTxPlanRentError ==
    /\ pc = "start"
    /\ pc' = "planError"
    /\ UNCHANGED <<planVars, execVars, ledgerVars>>

(***************************************************************************)
(* Errors.  A message text is represented by what the catch block can      *)
(* observe of it: whether it contains 'Blockhash not found', contains      *)
(* 'blockhash', contains neither, or is absent/empty.                      *)
(***************************************************************************)
NoError == [message |-> "", cause |-> "", origin |-> "none"]
NoRequest == [push_mode |-> "none"]
NoRawTx == [data |-> "none"]

Includes(text, needle) ==
    \/ needle = "Blockhash not found" /\ text = "Blockhash not found"
    \/ needle = "blockhash" /\ text = "blockhash"

\* error?.cause?.message || error?.message || ''
ErrorMsg(error) == IF error.cause # "" THEN error.cause ELSE error.message

IsBlockhashExpired(error) ==
    \/ Includes(ErrorMsg(error), "Blockhash not found")
    \/ Includes(ErrorMsg(error), "blockhash")

\* Errors whose text comes from a remote answer (RPC error, HTTP error body).
RemoteErrors(origin) ==
    {[message |-> m, cause |-> c, origin |-> origin] :
        m \in {"other", "blockhash"}, c \in {""}}
    \cup {[message |-> "other", cause |-> c, origin |-> origin] :
        c \in {"Blockhash not found", "other"}}

\* Errors whose text is composed locally by pollForSignedTransaction: the
\* three throw statements have three different texts.
LocalError(origin) ==
    [message |-> CASE origin = "pollTimeout" -> "Timed out waiting for transaction to be signed"
                   [] origin = "pollNoRaw" -> "is signed but no raw_transaction found in response"
                   [] OTHER -> "failed with state",
     cause |-> "", origin |-> origin]

(***************************************************************************)
(* The message handed to signWithFordefi: a message of the plan in the     *)
(* deployment, the single close message in the close-buffer utility.       *)
(***************************************************************************)
Reclaiming == pc = "reclaimSigning"

\* Variant of closeIx: the lamports are sent back to the buffer itself.
closeIx_DestinationIsBuffer == getCloseInstruction(bufferAddress, bufferAddress, deployerVault)

\* The close instruction of the close-buffer utility.
closeIx == getCloseInstruction(bufferAddress, deployerVault, deployerVault)

closeMessage ==
    appendTransactionMessageInstruction(1, createTransactionMessage)

InstructionList == IF Reclaiming THEN <<closeIx>> ELSE ixs

\* Variant of Message: a retry takes the message after the one that failed.
Message_NextOnRetry ==
    IF Reclaiming THEN closeMessage
    ELSE transactionPlan[Min(currentTx + attempt - 1, Len(transactionPlan))]

\* executeTransactionMessage passes the same `message` to every attempt.
Message == IF Reclaiming THEN closeMessage ELSE transactionPlan[currentTx]

(***************************************************************************)
(* Plan executor (kit.createTransactionPlanExecutor over the sequential    *)
(* plan) and executeTransactionMessage with its retry loop.                *)
(***************************************************************************)
\* Variant of FailPlan: the failure is recorded but the executor goes on.
FailPlan_NoCancel(k) ==
    /\ status' = [status EXCEPT ![k] = "failed"]
    /\ pc' = "executing"

\* A failed message cancels every message after it; the executor throws.
FailPlan(k) ==
    /\ status' = [j \in DOMAIN status |->
                    IF j = k THEN "failed"
                    ELSE IF j > k THEN "canceled" ELSE status[j]]
    /\ pc' = "failed"

\* Variant of the loop condition: `attempt < maxRetries`.
RetryLoopContinues_Strict(a) == a < maxRetries

\* for (let attempt = 1; attempt <= maxRetries; attempt++)
RetryLoopContinues(a) == a <= maxRetries

\* Variant of Catch: every error is retried while attempts remain.
Catch_RetryAll(error) ==
    /\ lastError' = error
    /\ pollAttempt' = 0
    /\ IF RetryLoopContinues(attempt + 1)
       THEN /\ attempt' = attempt + 1
            /\ txAttempts' = txAttempts + 1
            /\ attemptStartSlot' = ledgerSlot
            /\ step' = "getLatestBlockhash"
            /\ UNCHANGED <<status, pc>>
       ELSE /\ attempt' = attempt + 1
            /\ txAttempts' = txAttempts
            /\ attemptStartSlot' = attemptStartSlot
            /\ step' = "idle"
            /\ FailPlan(currentTx)

\* The catch block: continue on a blockhash text, rethrow otherwise; the
\* loop falling through throws lastError.
Catch(error) ==
    /\ lastError' = error
    /\ pollAttempt' = 0
    /\ IF IsBlockhashExpired(error) /\ RetryLoopContinues(attempt + 1)
       THEN /\ attempt' = attempt + 1
            /\ txAttempts' = txAttempts + 1
            /\ attemptStartSlot' = ledgerSlot
            /\ step' = "getLatestBlockhash"
            /\ UNCHANGED <<status, pc>>
       ELSE /\ attempt' = IF IsBlockhashExpired(error) THEN attempt + 1 ELSE attempt
            /\ txAttempts' = txAttempts
            /\ attemptStartSlot' = attemptStartSlot
            /\ step' = "idle"
            /\ FailPlan(currentTx)

\* The close-buffer utility awaits signWithFordefi and sendTransaction without
\* a try block: any rejection rejects main(), which logs it.
ReclaimRejects(error) ==
    /\ lastError' = error
    /\ pollAttempt' = 0
    /\ step' = "idle"
    /\ pc' = "reclaimError"
    /\ UNCHANGED <<attempt, txAttempts, attemptStartSlot, status>>

\* An error leaving signWithFordefi reaches the caller of signWithFordefi.
Throw(error) == IF Reclaiming THEN ReclaimRejects(error) ELSE Catch(error)

\* The executor hands the next message of the plan to executeTransactionMessage.
ExecuteTransactionMessage ==
    /\ pc \in {"planned", "executing"}
    /\ step = "idle"
    /\ currentTx < Len(transactionPlan)
    /\ pc' = "executing"
    /\ currentTx' = currentTx + 1
    /\ attempt' = 1
    /\ lastError' = NoError
    /\ latestBlockhash' = 0
    /\ jsonBody' = NoRequest
    /\ rawSignedTx' = NoRawTx
    /\ txAttempts' = 1
    /\ txPosts' = 0
    /\ txSends' = 0
    /\ attemptStartSlot' = ledgerSlot
    /\ step' = "getLatestBlockhash"
    /\ oracleState' = "none"
    /\ UNCHANGED <<planVars, status, pollAttempt, ledgerSlot, ledgerVars>>

\* Variant of LifetimeFor: a blockhash fetched before is kept.
LifetimeFor_Cached(fetched, previous) == IF previous # 0 THEN previous ELSE fetched

\* Which blockhash the sign call puts in the message: the one just fetched.
LifetimeFor(fetched, previous) == fetched

\* signWithFordefi, first await: rpc.getLatestBlockhash().send() answers.
GetLatestBlockhash ==
    /\ step = "getLatestBlockhash"
    /\ ledgerSlot' = ledgerSlot + 1
    /\ latestBlockhash' = LifetimeFor(ledgerSlot', latestBlockhash)
    /\ step' = "postTx"
    /\ UNCHANGED <<planVars, pc, status, currentTx, attempt, pollAttempt,
                   jsonBody, rawSignedTx, lastError, txAttempts, txPosts, txSends,
                   attemptStartSlot, oracleState, ledgerVars>>

GetLatestBlockhashFails ==
    /\ step = "getLatestBlockhash"
    /\ \E error \in RemoteErrors("getLatestBlockhash") : Throw(error)
    /\ UNCHANGED <<planVars, currentTx, ledgerSlot, latestBlockhash,
                   jsonBody, rawSignedTx, txPosts, txSends, oracleState, ledgerVars>>

\* Signers of a compiled message, fee payer first.
SignerOrder(msg) ==
    <<msg.feePayer>>
    \o SelectSeq(<<bufferAddress, programAddress, deployerVault>>,
                 LAMBDA a : a \in MessageSigners(InstructionList, msg) /\ a # msg.feePayer)

NullSignature == [by |-> "null", lifetimeToken |-> 0]

\* Variant of PartialSignature: no local signer signs, every slot stays empty.
PartialSignature_NoneSigns(address, lifetimeToken) == NullSignature

\* partiallySignTransactionMessageWithSigners: keypair signers sign, the
\* noop signer of the vault leaves its slot empty.
PartialSignature(address, lifetimeToken) ==
    IF address = deployerVault THEN NullSignature
    ELSE [by |-> address, lifetimeToken |-> lifetimeToken]

\* The signatures array of the request: null placeholder of the fee payer
\* unshifted to the front, local signatures pushed behind.
RECURSIVE BuildSignatures(_, _, _, _)
BuildSignatures(msg, addresses, lifetimeToken, acc) ==
    IF addresses = <<>> THEN acc
    ELSE LET address == Head(addresses)
             sig == PartialSignature(address, lifetimeToken)
         IN BuildSignatures(msg, Tail(addresses), lifetimeToken,
                IF address = msg.feePayer THEN <<[data |-> NullSignature]>> \o acc
                ELSE Append(acc, [data |-> sig]))

\* Variant of JsonBody: no custom fee, the signer estimates the fee itself.
JsonBody_OracleFee(msg, blockhash, customFeeLamports) ==
    [signer_type |-> "api_signer",
     push_mode |-> "manual",
     data |-> [feePayer |-> msg.feePayer, instructions |-> msg.instructions,
               lifetimeToken |-> blockhash],
     signatures |-> BuildSignatures(msg, SignerOrder(msg), blockhash, <<>>),
     skip_prediction |-> TRUE,
     fee |-> [type |-> "priority", unit_price |-> 0]]

\* Variant of JsonBody: the signer is asked to push the transaction itself.
JsonBody_AutoPush(msg, blockhash, customFeeLamports) ==
    [signer_type |-> "api_signer",
     push_mode |-> "auto",
     data |-> [feePayer |-> msg.feePayer, instructions |-> msg.instructions,
               lifetimeToken |-> blockhash],
     signatures |-> BuildSignatures(msg, SignerOrder(msg), blockhash, <<>>),
     skip_prediction |-> TRUE,
     fee |-> [type |-> "custom",
              unit_price |-> IF customFeeLamports # 0 THEN customFeeLamports
                             ELSE defaultFeeLamports]]

\* The request body signWithFordefi posts for a message and a blockhash.
JsonBody(msg, blockhash, customFeeLamports) ==
    [signer_type |-> "api_signer",
     push_mode |-> "manual",
     data |-> [feePayer |-> msg.feePayer, instructions |-> msg.instructions,
               lifetimeToken |-> blockhash],
     signatures |-> BuildSignatures(msg, SignerOrder(msg), blockhash, <<>>),
     skip_prediction |-> TRUE,
     fee |-> [type |-> "custom",
              unit_price |-> IF customFeeLamports # 0 THEN customFeeLamports
                             ELSE defaultFeeLamports]]

\* signWithFordefi, second await: the request is built and postTx answers 2xx.
PostTx ==
    /\ step = "postTx"
    /\ jsonBody' = JsonBody(Message, latestBlockhash, 0)
    /\ txPosts' = txPosts + 1
    /\ pollAttempt' = 0
    /\ oracleState' = "none"
    /\ step' = "poll"
    /\ UNCHANGED <<planVars, pc, status, currentTx, attempt, ledgerSlot,
                   latestBlockhash, rawSignedTx, lastError, txAttempts, txSends,
                   attemptStartSlot, ledgerVars>>

\* postTx throws: non-2xx status (text holds the response body) or network error.
PostTxFails ==
    /\ step = "postTx"
    /\ jsonBody' = JsonBody(Message, latestBlockhash, 0)
    /\ txPosts' = txPosts + 1
    /\ oracleState' = "none"
    /\ \E error \in RemoteErrors("postTx") : Throw(error)
    /\ UNCHANGED <<planVars, currentTx, ledgerSlot, latestBlockhash,
                   rawSignedTx, txSends, ledgerVars>>

\* What the signer returns for a signed request: the message it was given,
\* its own signature in the fee payer slot, the local signatures behind.
RawTransaction(body) ==
    [data |-> body.data,
     signatures |-> [i \in 1..Len(body.signatures) |->
                       IF i = 1 THEN [by |-> body.data.feePayer,
                                      lifetimeToken |-> body.data.lifetimeToken]
                       ELSE body.signatures[i].data]]

\* Variant of the poll loop condition: `attempt <= maxAttempts`.
PollLoopContinues_Leq(a) == a <= maxAttempts

\* for (let attempt = 0; attempt < maxAttempts; attempt++)
PollLoopContinues(a) == a < maxAttempts

\* Variant of PollWaiting: the loop counter is not advanced (`while (true)`).
PollWaiting_NoCount ==
    /\ step = "poll"
    /\ PollLoopContinues(pollAttempt)
    /\ \E state \in {"waiting", "dropped"} : oracleState' = state
    /\ UNCHANGED <<planVars, pc, status, currentTx, attempt, step, pollAttempt, ledgerSlot,
                   latestBlockhash, jsonBody, rawSignedTx, lastError,
                   txAttempts, txPosts, txSends, attemptStartSlot, ledgerVars>>

\* pollForSignedTransaction: one getTx of the loop, state not terminal for the
\* loop (anything but signed, pushed, mined, failed, aborted): sleep, go on.
PollWaiting ==
    /\ step = "poll"
    /\ PollLoopContinues(pollAttempt)
    /\ \E state \in {"waiting", "dropped"} :
          /\ oracleState' = state
          /\ pollAttempt' = pollAttempt + 1
    /\ UNCHANGED <<planVars, pc, status, currentTx, attempt, step, ledgerSlot,
                   latestBlockhash, jsonBody, rawSignedTx, lastError,
                   txAttempts, txPosts, txSends, attemptStartSlot, ledgerVars>>

\* state signed | pushed | mined with a raw transaction: it is returned.
PollSigned ==
    /\ step = "poll"
    /\ PollLoopContinues(pollAttempt)
    /\ \E state \in {"signed", "pushed", "mined"} :
          /\ oracleState' = state
          /\ rawSignedTx' = RawTransaction(jsonBody)
    /\ pollAttempt' = 0
    /\ step' = "sendTransaction"
    /\ UNCHANGED <<planVars, pc, status, currentTx, attempt, ledgerSlot,
                   latestBlockhash, jsonBody, lastError, txAttempts, txPosts, txSends,
                   attemptStartSlot, ledgerVars>>

\* Variant of PollThrows: a signed answer without raw transaction is returned
\* to the caller as it is, only failed and aborted throw.
PollThrows_ReturnsEmpty ==
    /\ step = "poll"
    /\ PollLoopContinues(pollAttempt)
    /\ \E state \in {"signedNoRaw", "failed", "aborted"} :
          /\ oracleState' = state
          /\ IF state = "signedNoRaw"
             THEN /\ rawSignedTx' = NoRawTx
                  /\ pollAttempt' = 0
                  /\ step' = "sendTransaction"
                  /\ UNCHANGED <<pc, status, attempt, lastError, txAttempts,
                                 attemptStartSlot>>
             ELSE /\ Throw(LocalError("poll"))
                  /\ UNCHANGED rawSignedTx
    /\ UNCHANGED <<planVars, currentTx, ledgerSlot, latestBlockhash,
                   jsonBody, txPosts, txSends, ledgerVars>>

\* state signed | pushed | mined without raw transaction, or failed | aborted:
\* pollForSignedTransaction throws.
PollThrows ==
    /\ step = "poll"
    /\ PollLoopContinues(pollAttempt)
    /\ \E state \in {"signedNoRaw", "failed", "aborted"} :
          /\ oracleState' = state
          /\ Throw(LocalError(IF state = "signedNoRaw" THEN "pollNoRaw" ELSE "poll"))
    /\ UNCHANGED <<planVars, currentTx, ledgerSlot, latestBlockhash,
                   jsonBody, rawSignedTx, txPosts, txSends, ledgerVars>>

\* getTx throws inside the loop: HTTP or network error.
GetTxFails ==
    /\ step = "poll"
    /\ PollLoopContinues(pollAttempt)
    /\ \E error \in RemoteErrors("getTx") : Throw(error)
    /\ UNCHANGED <<planVars, currentTx, ledgerSlot, latestBlockhash,
                   jsonBody, rawSignedTx, txPosts, txSends, oracleState, ledgerVars>>

\* The loop ran maxAttempts times without a terminal state.
PollTimeout ==
    /\ step = "poll"
    /\ ~PollLoopContinues(pollAttempt)
    /\ Throw(LocalError("pollTimeout"))
    /\ UNCHANGED <<planVars, currentTx, ledgerSlot, latestBlockhash,
                   jsonBody, rawSignedTx, txPosts, txSends, oracleState, ledgerVars>>

\* Effect of an accepted instruction on the buffer account: the system
\* program creates it, the loader empties it on deploy and on close.
ApplyInstruction(account, ix) ==
    IF ix.kind = "CreateAccount" /\ ix.newAccount = bufferAddress THEN "funded"
    ELSE IF ix.kind \in {"DeployWithMaxDataLen", "Close"} THEN "absent"
    ELSE account

RECURSIVE BufferAfter(_, _, _, _)
BufferAfter(account, list, msg, j) ==
    IF j > Len(msg.instructions) THEN account
    ELSE BufferAfter(ApplyInstruction(account, list[msg.instructions[j]]), list, msg, j + 1)

\* The ledger's count of accepted broadcasts, one more for message k.
Accepted(accepts, k) == [accepts EXCEPT ![k] = @ + 1]

\* The preflight simulation of sendTransaction: the fee payer can fund every
\* account the message creates.
Fundable(list, msg) ==
    \A i \in Range(msg.instructions) :
        list[i].kind = "CreateAccount" => balance >= list[i].lamports

\* Variant of SendTransaction: no `return` after the broadcast, the loop goes on.
SendTransaction_NoReturn ==
    /\ pc = "executing"
    /\ step = "sendTransaction"
    /\ Fundable(ixs, transactionPlan[currentTx])
    /\ ledgerAccepts' = Accepted(ledgerAccepts, currentTx)
    /\ bufferOnLedger' = BufferAfter(bufferOnLedger, ixs, transactionPlan[currentTx], 1)
    /\ IF RetryLoopContinues(attempt + 1)
       THEN /\ attempt' = attempt + 1
            /\ txAttempts' = txAttempts + 1
            /\ attemptStartSlot' = ledgerSlot
            /\ step' = "getLatestBlockhash"
            /\ UNCHANGED <<status, latestBlockhash, jsonBody, rawSignedTx, lastError,
                           txPosts, txSends>>
       ELSE /\ status' = [status EXCEPT ![currentTx] = "successful"]
            /\ step' = "idle"
            /\ attempt' = 0
            /\ latestBlockhash' = 0
            /\ jsonBody' = NoRequest
            /\ rawSignedTx' = NoRawTx
            /\ lastError' = NoError
            /\ txAttempts' = 0
            /\ txPosts' = 0
            /\ txSends' = 0
            /\ attemptStartSlot' = 0
    /\ oracleState' = "none"
    /\ UNCHANGED <<planVars, pc, currentTx, pollAttempt, ledgerSlot, reclaimed, reclaimRun>>

\* rpc.sendTransaction(rawSignedTx) answers with a signature: the ledger has
\* accepted the transaction; executeTransactionMessage returns (its locals are
\* gone), the message is done.
SendTransaction ==
    /\ pc = "executing"
    /\ step = "sendTransaction"
    /\ Fundable(ixs, transactionPlan[currentTx])
    /\ ledgerAccepts' = Accepted(ledgerAccepts, currentTx)
    /\ bufferOnLedger' = BufferAfter(bufferOnLedger, ixs, transactionPlan[currentTx], 1)
    /\ status' = [status EXCEPT ![currentTx] = "successful"]
    /\ step' = "idle"
    /\ attempt' = 0
    /\ latestBlockhash' = 0
    /\ jsonBody' = NoRequest
    /\ rawSignedTx' = NoRawTx
    /\ lastError' = NoError
    /\ txAttempts' = 0
    /\ txPosts' = 0
    /\ txSends' = 0
    /\ attemptStartSlot' = 0
    /\ oracleState' = "none"
    /\ UNCHANGED <<planVars, pc, currentTx, pollAttempt, ledgerSlot, reclaimed, reclaimRun>>

\* rpc.sendTransaction rejects (preflight failure, RPC error): nothing was
\* accepted by the ledger.
SendTransactionFails ==
    /\ pc = "executing"
    /\ step = "sendTransaction"
    /\ txSends' = txSends + 1
    /\ \E error \in RemoteErrors("sendTransaction") : Catch(error)
    /\ UNCHANGED <<planVars, currentTx, ledgerSlot, latestBlockhash,
                   jsonBody, rawSignedTx, txPosts, oracleState, ledgerVars>>

\* Every message of the plan was executed: 'Transaction plan executed'.
PlanExecuted ==
    /\ pc = "executing"
    /\ step = "idle"
    /\ currentTx = Len(transactionPlan)
    /\ pc' = "done"
    /\ UNCHANGED <<planVars, execVars, ledgerVars>>

(***************************************************************************)
(* close-buffer utility: main() of the close-buffer script, run by hand on *)
(* the buffer address, a new process each time.                            *)
(***************************************************************************)
\* Variant of HasAccountInfoValue: the existence check is dropped.
HasAccountInfoValue_Always(account) == TRUE

\* accountInfo.value of the getAccountInfo answer is non-null.
HasAccountInfoValue(account) == account # "absent"

\* The script is started: nothing of an earlier process is left but the ledger.
ReclaimMain ==
    /\ pc \in {"start", "planError", "failed", "done",
               "reclaimNotFound", "reclaimSent", "reclaimError"}
    /\ reclaimRun < MaxReclaimRuns
    /\ reclaimRun' = reclaimRun + 1
    /\ pc' = "getAccountInfo"
    /\ ixs' = <<>>
    /\ transactionPlan' = <<>>
    /\ status' = <<>>
    /\ currentTx' = 0
    /\ attempt' = 0
    /\ step' = "idle"
    /\ pollAttempt' = 0
    /\ latestBlockhash' = 0
    /\ jsonBody' = NoRequest
    /\ rawSignedTx' = NoRawTx
    /\ lastError' = NoError
    /\ txAttempts' = 0
    /\ txPosts' = 0
    /\ txSends' = 0
    /\ attemptStartSlot' = 0
    /\ oracleState' = "none"
    /\ UNCHANGED <<binaryLen, binarySeed, balance, ledgerSlot, ledgerAccepts, bufferOnLedger, reclaimed>>

\* Variant of GetAccountInfoAbsent: 'does not exist' is logged without the
\* `return`, main goes on to build and sign the close message.
GetAccountInfoAbsent_NoReturn ==
    /\ pc = "getAccountInfo"
    /\ ~HasAccountInfoValue(bufferOnLedger)
    /\ pc' = "reclaimSigning"
    /\ step' = "getLatestBlockhash"
    /\ attempt' = 1
    /\ txAttempts' = 1
    /\ attemptStartSlot' = ledgerSlot
    /\ UNCHANGED <<planVars, status, currentTx, pollAttempt, ledgerSlot, latestBlockhash,
                   jsonBody, rawSignedTx, lastError, txPosts, txSends, oracleState,
                   ledgerVars>>

\* getAccountInfo answers null: 'does not exist' is logged, main returns.
GetAccountInfoAbsent ==
    /\ pc = "getAccountInfo"
    /\ ~HasAccountInfoValue(bufferOnLedger)
    /\ pc' = "reclaimNotFound"
    /\ UNCHANGED <<planVars, execVars, ledgerVars>>

\* getAccountInfo answers an account: the close message is built and handed
\* to signWithFordefi.
GetAccountInfoFound ==
    /\ pc = "getAccountInfo"
    /\ HasAccountInfoValue(bufferOnLedger)
    /\ pc' = "reclaimSigning"
    /\ step' = "getLatestBlockhash"
    /\ attempt' = 1
    /\ txAttempts' = 1
    /\ attemptStartSlot' = ledgerSlot
    /\ UNCHANGED <<planVars, status, currentTx, pollAttempt, ledgerSlot, latestBlockhash,
                   jsonBody, rawSignedTx, lastError, txPosts, txSends, oracleState,
                   ledgerVars>>

\* getAccountInfo rejects: main rejects.
GetAccountInfoFails ==
    /\ pc = "getAccountInfo"
    /\ \E error \in RemoteErrors("getAccountInfo") : lastError' = error
    /\ pc' = "reclaimError"
    /\ UNCHANGED <<planVars, status, currentTx, attempt, step, pollAttempt, ledgerSlot,
                   latestBlockhash, jsonBody, rawSignedTx, txAttempts, txPosts, txSends,
                   attemptStartSlot, oracleState, ledgerVars>>

\* sendTransaction of the close transaction answers with a signature: the
\* ledger closes the buffer and moves its lamports to the deployer vault.
ReclaimSendTransaction ==
    /\ Reclaiming
    /\ step = "sendTransaction"
    /\ bufferOnLedger = "funded"
    /\ bufferOnLedger' = BufferAfter(bufferOnLedger, <<closeIx>>, closeMessage, 1)
    /\ reclaimed' = reclaimed + 1
    /\ txSends' = txSends + 1
    /\ step' = "idle"
    /\ pc' = "reclaimSent"
    /\ UNCHANGED <<planVars, status, currentTx, attempt, pollAttempt, ledgerSlot,
                   latestBlockhash, jsonBody, rawSignedTx, lastError, txAttempts, txPosts,
                   attemptStartSlot, oracleState, ledgerAccepts, reclaimRun>>

\* sendTransaction of the close transaction rejects: main rejects.
ReclaimSendTransactionFails ==
    /\ Reclaiming
    /\ step = "sendTransaction"
    /\ txSends' = txSends + 1
    /\ \E error \in RemoteErrors("closeSendTransaction") : ReclaimRejects(error)
    /\ UNCHANGED <<planVars, currentTx, ledgerSlot, latestBlockhash,
                   jsonBody, rawSignedTx, txPosts, oracleState, ledgerVars>>

(***************************************************************************)
(* Specifications                                                          *)
(***************************************************************************)
\* Balances of the deployer vault explored: nothing, or more than the rent of
\* every account a run creates; what a run spends is not subtracted.
Balances ==
    {0, 2 * RentExemption(MaxDataLen + BUFFER_HEADER_SIZE)}

ExecInit ==
    /\ pc = "start"
    /\ balance \in Balances
    /\ ixs = <<>>
    /\ transactionPlan = <<>>
    /\ status = <<>>
    /\ currentTx = 0
    /\ attempt = 0
    /\ step = "idle"
    /\ pollAttempt = 0
    /\ ledgerSlot = 0
    /\ latestBlockhash = 0
    /\ jsonBody = NoRequest
    /\ rawSignedTx = NoRawTx
    /\ lastError = NoError
    /\ txAttempts = 0
    /\ txPosts = 0
    /\ txSends = 0
    /\ attemptStartSlot = 0
    /\ oracleState = "none"
    /\ ledgerAccepts = <<>>
    /\ bufferOnLedger = "absent"
    /\ reclaimed = 0
    /\ reclaimRun = 0

\* PlanSpec: createTxPlan alone, over every binary up to MaxDataLen bytes.
PlanInit ==
    /\ binaryLen \in 0..MaxDataLen
    /\ binarySeed \in 0..MaxSeed
    /\ ExecInit

PlanNext == CreateTxPlan \/ CreateTxPlanRentError

PlanSpec == PlanInit /\ [][PlanNext]_vars

\* Spec: a whole run of main() on binaries of representative lengths, and
\* runs of the close-buffer utility before or after it.
DeployLens == {0, chunkSize, chunkSize + 400}

Init ==
    /\ binaryLen \in DeployLens
    /\ binarySeed = 0
    /\ ExecInit

Next ==
    \/ CreateTxPlan
    \/ CreateTxPlanRentError
    \/ ExecuteTransactionMessage
    \/ GetLatestBlockhash
    \/ GetLatestBlockhashFails
    \/ PostTx
    \/ PostTxFails
    \/ PollWaiting
    \/ PollSigned
    \/ PollThrows
    \/ GetTxFails
    \/ PollTimeout
    \/ SendTransaction
    \/ SendTransactionFails
    \/ PlanExecuted
    \/ ReclaimMain
    \/ GetAccountInfoAbsent
    \/ GetAccountInfoFound
    \/ GetAccountInfoFails
    \/ ReclaimSendTransaction
    \/ ReclaimSendTransactionFails

Spec == Init /\ [][Next]_vars

\* One run of the deployment main alone: the process goes on with its next
\* step as soon as the promise it awaits settles, and every request to the
\* signer or the ledger is answered.
DeployNext ==
    \/ CreateTxPlan
    \/ CreateTxPlanRentError
    \/ ExecuteTransactionMessage
    \/ GetLatestBlockhash
    \/ GetLatestBlockhashFails
    \/ PostTx
    \/ PostTxFails
    \/ PollWaiting
    \/ PollSigned
    \/ PollThrows
    \/ GetTxFails
    \/ PollTimeout
    \/ SendTransaction
    \/ SendTransactionFails
    \/ PlanExecuted

\* The runs explored: the empty binary (a plan of one transaction) and a
\* binary of a full and a short chunk (a plan of three).
DeployInit == Init /\ binaryLen \in {0, chunkSize + 400}

DeploySpec == DeployInit /\ [][DeployNext]_vars /\ WF_vars(DeployNext)

(***************************************************************************)
(* The stand-alone deployment script (createAndInitializeBuffer,           *)
(* writeToBuffer, deployProgram over FordefiSolanaClient.createTransaction),*)
(* the bpf-loader helpers (calculateBufferRent, createBuffer) and the      *)
(* polling method FordefiClient.waitForTransaction.                        *)
(***************************************************************************)
PROGRAM_DATA_HEADER_SIZE == 45
MAX_CHUNK_SIZE == 900
lamportsPerByte == 6960
timeoutMs == 60000
pollIntervalMs == 1000

\* bpf-loader helper: BigInt(PROGRAM_DATA_HEADER_SIZE + programDataLen) * 6960n
calculateBufferRent(programDataLen) ==
    (PROGRAM_DATA_HEADER_SIZE + programDataLen) * lamportsPerByte

\* The ledger creates an account only with the rent-exemption minimum paid.
CreateAccountAccepted(ix) == ix.lamports >= RentExemption(ix.space)

\* secretKeyToBase58(keypair.secretKey): the 64 secret bytes of a keypair.
secretKeyToBase58(address) == [secretKeyOf |-> address]

\* The body FordefiSolanaClient.createTransaction posts: the compiled message
\* and, when given, the secret keys the signer is to sign with (the empty
\* sequence stands for a body without the ephemeral_signing_keys field).
createTransactionBody(instructions, ephemeralKeys) ==
    [signer_type |-> "api_signer",
     data |-> [feePayer |-> deployerVault, instructions |-> instructions],
     ephemeral_signing_keys |-> ephemeralKeys,
     wait_for_state |-> "mined"]

\* createAndInitializeBuffer of the stand-alone script: size and rent are
\* computed in place, the transaction goes to createTransaction, whose answer
\* is not inspected.
createAndInitializeBuffer ==
    /\ pc = "legacyMain"
    /\ LET bufferSize == PROGRAM_DATA_HEADER_SIZE + binaryLen
           rentLamports == bufferSize * 6960
           createAccountIx == getCreateAccountInstruction(deployerVault, bufferAddress,
                                  rentLamports, bufferSize, LOADER_V3_PROGRAM)
           initBufferIx == getInitializeBufferInstruction(bufferAddress, deployerVault)
       IN /\ ixs' = <<createAccountIx, initBufferIx>>
          /\ jsonBody' = createTransactionBody(<<createAccountIx, initBufferIx>>,
                                               <<secretKeyToBase58(bufferAddress)>>)
          /\ bufferOnLedger' = IF CreateAccountAccepted(createAccountIx)
                               THEN "funded" ELSE bufferOnLedger
    /\ ledgerSlot' = ledgerSlot + 1
    /\ txPosts' = txPosts + 1
    /\ currentTx' = 0
    /\ pc' = "writeToBuffer"
    /\ UNCHANGED <<binaryLen, binarySeed, balance, transactionPlan, status, attempt, step,
                   pollAttempt, latestBlockhash, rawSignedTx, lastError,
                   txAttempts, txSends, attemptStartSlot, oracleState,
                   ledgerAccepts, reclaimed, reclaimRun>>

\* writeToBuffer: one turn of `for (let i = 0; i < chunks; i++)`.
writeToBuffer ==
    /\ pc = "writeToBuffer"
    /\ currentTx < (binaryLen + MAX_CHUNK_SIZE - 1) \div MAX_CHUNK_SIZE
    /\ LET offset == currentTx * MAX_CHUNK_SIZE
           end == Min(offset + MAX_CHUNK_SIZE, binaryLen)
           chunk == Slice(dataSize, offset, end)
           writeIx == getWriteInstruction(bufferAddress, deployerVault, offset, chunk)
       IN /\ ixs' = Append(ixs, writeIx)
          /\ jsonBody' = createTransactionBody(<<writeIx>>, <<>>)
    /\ ledgerSlot' = ledgerSlot + 1
    /\ txPosts' = txPosts + 1
    /\ currentTx' = currentTx + 1
    /\ UNCHANGED <<binaryLen, binarySeed, balance, transactionPlan, pc, status, attempt, step,
                   pollAttempt, latestBlockhash, rawSignedTx, lastError,
                   txAttempts, txSends, attemptStartSlot, oracleState, ledgerVars>>

\* deployProgram of the stand-alone script, after the write loop ended.
deployProgram ==
    /\ pc = "writeToBuffer"
    /\ ~(currentTx < (binaryLen + MAX_CHUNK_SIZE - 1) \div MAX_CHUNK_SIZE)
    /\ LET maxDataLen == binaryLen * 2
           deployIx == getDeployWithMaxDataLenInstruction(deployerVault,
                           bufferAddress, deployerVault, programDataAddress,
                           programAddress, maxDataLen)
       IN /\ ixs' = Append(ixs, deployIx)
          /\ jsonBody' = createTransactionBody(<<deployIx>>,
                                               <<secretKeyToBase58(programAddress)>>)
    /\ ledgerSlot' = ledgerSlot + 1
    /\ txPosts' = txPosts + 1
    /\ pc' = "legacyDone"
    /\ UNCHANGED <<binaryLen, binarySeed, balance, transactionPlan, status, currentTx, attempt,
                   step, pollAttempt, latestBlockhash, rawSignedTx, lastError,
                   txAttempts, txSends, attemptStartSlot, oracleState, ledgerVars>>

\* FordefiSolanaClient.createTransaction throws on a non-2xx answer to the
\* request of the step the script is at; main logs 'Deployment failed' and
\* exits.
createTransactionFails ==
    /\ pc \in {"legacyMain", "writeToBuffer"}
    /\ jsonBody' = createTransactionBody(<<>>,
                      IF pc = "legacyMain" THEN <<secretKeyToBase58(bufferAddress)>>
                      ELSE IF currentTx < (binaryLen + MAX_CHUNK_SIZE - 1) \div MAX_CHUNK_SIZE
                           THEN <<>>
                           ELSE <<secretKeyToBase58(programAddress)>>)
    /\ \E error \in RemoteErrors("createTransaction") : lastError' = error
    /\ ledgerSlot' = ledgerSlot + 1
    /\ txPosts' = txPosts + 1
    /\ pc' = "legacyFailed"
    /\ UNCHANGED <<planVars, status, currentTx, attempt, step, pollAttempt,
                   latestBlockhash, rawSignedTx, txAttempts, txSends,
                   attemptStartSlot, oracleState, ledgerVars>>

\* createBuffer of the bpf-loader helpers: the create and initialize
\* instructions are built with calculateBufferRent, then the export of the
\* buffer key throws.
createBuffer ==
    /\ pc = "createBuffer"
    /\ LET bufferSize == PROGRAM_DATA_HEADER_SIZE + binaryLen
           rentLamports == calculateBufferRent(binaryLen)
       IN ixs' = <<getCreateAccountInstruction(deployerVault, bufferAddress,
                       rentLamports, bufferSize, LOADER_V3_PROGRAM),
                   getInitializeBufferInstruction(bufferAddress, deployerVault)>>
    /\ ledgerSlot' = ledgerSlot + 1
    /\ lastError' = [message |-> "other", cause |-> "", origin |-> "exportPrivateKeyBase58"]
    /\ pc' = "legacyFailed"
    /\ UNCHANGED <<binaryLen, binarySeed, balance, transactionPlan, status, currentTx, attempt,
                   step, pollAttempt, latestBlockhash, jsonBody, rawSignedTx,
                   txAttempts, txPosts, txSends, attemptStartSlot, oracleState,
                   ledgerVars>>

\* main of the bpf-loader deployment script: the payer's balance is compared
\* with calculateBufferRent before anything else; with enough balance it
\* prints the deployment steps and ends.
deployMain ==
    /\ pc = "deployMain"
    /\ LET requiredRent == calculateBufferRent(binaryLen)
       IN IF balance < requiredRent
          THEN /\ lastError' = [message |-> "Insufficient balance", cause |-> "",
                                origin |-> "getBalance"]
               /\ pc' = "legacyFailed"
          ELSE /\ lastError' = lastError
               /\ pc' = "legacyPreview"
    /\ UNCHANGED <<planVars, status, currentTx, attempt, step, pollAttempt, ledgerSlot,
                   latestBlockhash, jsonBody, rawSignedTx, txAttempts, txPosts, txSends,
                   attemptStartSlot, oracleState, ledgerVars>>

\* The targetState argument of a waitForTransaction call.
TargetState ==
    CASE pc = "waitForSigned" -> "signed"
      [] pc = "waitForPushed" -> "pushed_to_blockchain"
      [] pc = "waitForMined" -> "mined"
      [] OTHER -> "none"

\* tx.state === targetState || tx.state === 'completed' || tx.state === 'mined'
IsTargetReached(state, targetState) ==
    state = targetState \/ state = "completed" \/ state = "mined"

\* while (Date.now() - startTime < timeoutMs), one second slept per turn.
WaitLoopContinues(polls) == polls * pollIntervalMs < timeoutMs

\* States a transaction of the signer can be observed in.
TransactionStates ==
    {"waiting", "signed", "pushed_to_blockchain", "mined", "completed",
     "failed", "cancelled", "aborted"}

\* waitForTransaction: the observed state ends the wait successfully.
WaitReturns ==
    /\ TargetState # "none"
    /\ WaitLoopContinues(pollAttempt)
    /\ \E state \in TransactionStates :
          /\ IsTargetReached(state, TargetState)
          /\ oracleState' = state
    /\ pc' = "waitReturned"
    /\ UNCHANGED <<planVars, status, currentTx, attempt, step, pollAttempt, ledgerSlot,
                   latestBlockhash, jsonBody, rawSignedTx, lastError, txAttempts,
                   txPosts, txSends, attemptStartSlot, ledgerVars>>

\* waitForTransaction: state failed or cancelled, it throws.
WaitThrows ==
    /\ TargetState # "none"
    /\ WaitLoopContinues(pollAttempt)
    /\ \E state \in TransactionStates :
          /\ ~IsTargetReached(state, TargetState)
          /\ state = "failed" \/ state = "cancelled"
          /\ oracleState' = state
    /\ lastError' = [message |-> "other", cause |-> "", origin |-> "waitForTransaction"]
    /\ pc' = "waitThrew"
    /\ UNCHANGED <<planVars, status, currentTx, attempt, step, pollAttempt, ledgerSlot,
                   latestBlockhash, jsonBody, rawSignedTx, txAttempts,
                   txPosts, txSends, attemptStartSlot, ledgerVars>>

\* waitForTransaction: any other state, sleep one second and poll again.
WaitSleeps ==
    /\ TargetState # "none"
    /\ WaitLoopContinues(pollAttempt)
    /\ \E state \in TransactionStates :
          /\ ~IsTargetReached(state, TargetState)
          /\ ~(state = "failed" \/ state = "cancelled")
          /\ oracleState' = state
    /\ pollAttempt' = pollAttempt + 1
    /\ UNCHANGED <<planVars, pc, status, currentTx, attempt, step, ledgerSlot,
                   latestBlockhash, jsonBody, rawSignedTx, lastError, txAttempts,
                   txPosts, txSends, attemptStartSlot, ledgerVars>>

\* waitForTransaction: the time is up, 'Timeout waiting for transaction'.
WaitTimeout ==
    /\ TargetState # "none"
    /\ ~WaitLoopContinues(pollAttempt)
    /\ lastError' = [message |-> "other", cause |-> "", origin |-> "waitTimeout"]
    /\ pc' = "waitTimedOut"
    /\ UNCHANGED <<planVars, status, currentTx, attempt, step, pollAttempt, ledgerSlot,
                   latestBlockhash, jsonBody, rawSignedTx, txAttempts,
                   txPosts, txSends, attemptStartSlot, oracleState, ledgerVars>>

\* LegacySpec: a run of the stand-alone script or of createBuffer on a binary,
\* or one call of waitForTransaction.
LegacyLens == DeployLens \cup {1, MaxDataLen}

LegacyInit ==
    /\ binarySeed = 0
    /\ balance \in Balances
    /\ ixs = <<>>
    /\ transactionPlan = <<>>
    /\ status = <<>>
    /\ currentTx = 0
    /\ attempt = 0
    /\ step = "idle"
    /\ pollAttempt = 0
    /\ ledgerSlot = 0
    /\ latestBlockhash = 0
    /\ jsonBody = NoRequest
    /\ rawSignedTx = NoRawTx
    /\ lastError = NoError
    /\ txAttempts = 0
    /\ txPosts = 0
    /\ txSends = 0
    /\ attemptStartSlot = 0
    /\ oracleState = "none"
    /\ ledgerAccepts = <<>>
    /\ bufferOnLedger = "absent"
    /\ reclaimed = 0
    /\ reclaimRun = 0
    /\ \/ pc \in {"legacyMain", "createBuffer", "deployMain"} /\ binaryLen \in LegacyLens
       \/ pc \in {"waitForSigned", "waitForPushed", "waitForMined"} /\ binaryLen = 0

LegacyNext ==
    \/ createAndInitializeBuffer
    \/ writeToBuffer
    \/ deployProgram
    \/ createTransactionFails
    \/ createBuffer
    \/ deployMain
    \/ WaitReturns
    \/ WaitThrows
    \/ WaitSleeps
    \/ WaitTimeout

LegacySpec == LegacyInit /\ [][LegacyNext]_vars

(***************************************************************************)
(* Failure reports of the two deployment mains.  The executor throws its   *)
(* own error with the error of executeTransactionMessage as cause; that    *)
(* error may carry a cause of its own.                                     *)
(***************************************************************************)
\* Messages along error, error.cause, error.cause.cause of the error caught
\* by main when executeTransactionMessage threw `error`.
CauseChain(error) ==
    <<"Failed to execute transaction plan", error.message>>
    \o (IF error.cause # "" THEN <<error.cause>> ELSE <<>>)

\* main with retry: getRootCause follows `cause` to the end; 'ROOT CAUSE:' is
\* the message found there.  The result is the position reported.
getRootCause(chain, current) ==
    LET RECURSIVE Walk(_)
        Walk(c) == IF c < Len(chain) THEN Walk(c + 1) ELSE c
    IN Walk(current)

\* main of run.ts: 'Cause:' is error.cause.message, one step down the chain.
RunCause(chain) == IF Len(chain) >= 2 THEN 2 ELSE 0

(***************************************************************************)
(* Claims about the planner                                                *)
(***************************************************************************)
WriteOps(list) == SelectSeq(list, LAMBDA ix : ix.kind = "Write")

CeilDiv(a, b) == (a + b - 1) \div b

RECURSIVE ConcatBytes(_, _)
ConcatBytes(w, i) == IF i > Len(w) THEN <<>> ELSE w[i].bytes \o ConcatBytes(w, i + 1)

\* C1: for every payload of length L >= 1 the plan holds exactly
\* ceil(L / chunkSize) write operations whose ranges [offset, offset+length),
\* in emission order, partition [0, L) without gap or overlap.
C1_WritesPartitionPayload ==
    (pc = "planned" /\ binaryLen >= 1) =>
        LET w == WriteOps(ixs) IN
        /\ Len(w) = CeilDiv(binaryLen, chunkSize)
        /\ w[1].offset = 0
        /\ \A i \in 1..Len(w) : Len(w[i].bytes) >= 1
        /\ \A i \in 1..(Len(w) - 1) : w[i + 1].offset = w[i].offset + Len(w[i].bytes)
        /\ w[Len(w)].offset + Len(w[Len(w)].bytes) = binaryLen

C1_Witness ==
    /\ pc = "planned"
    /\ binaryLen = 2 * chunkSize + 1
    /\ Len(WriteOps(ixs)) = 3

\* C2: concatenating the bytes of the write operations in ascending offset
\* order reproduces the payload exactly.
C2_RoundTrip ==
    pc = "planned" =>
        LET w == WriteOps(ixs) IN
        /\ \A i \in 1..(Len(w) - 1) : w[i].offset < w[i + 1].offset
        /\ ConcatBytes(w, 1) = dataSize

C2_Witness ==
    /\ pc = "planned"
    /\ binaryLen = chunkSize + 1
    /\ ConcatBytes(WriteOps(ixs), 1) = dataSize
    /\ Len(WriteOps(ixs)) = 2

\* C3: for a payload of length 0 planning fails: no plan is returned and no
\* transaction is signed or broadcast.
C3_EmptyPayloadRejected ==
    binaryLen = 0 =>
        /\ pc \in {"start", "planError"}
        /\ transactionPlan = <<>>
        /\ currentTx = 0
        /\ jsonBody = NoRequest

\* C4: the plan is create-escrow, initialize-escrow, the ceil(L/chunkSize)
\* writes in ascending offset order, create-target, finalize, that is
\* ceil(L/chunkSize) + 4 operations (7 for L = 1900, offsets 0, 900, 1800,
\* lengths 900, 900, 100); every operation that mutates the escrow lies
\* strictly after its creation and strictly before finalize.
C4_PlanOrder ==
    pc = "planned" =>
        LET n == Len(ixs)
            W == CeilDiv(binaryLen, chunkSize)
        IN
        /\ n = W + 4
        /\ ixs[1].kind = "CreateAccount" /\ ixs[1].newAccount = bufferAddress
        /\ ixs[2].kind = "InitializeBuffer" /\ ixs[2].sourceAccount = bufferAddress
        /\ \A i \in 3..(n - 2) :
              /\ ixs[i].kind = "Write"
              /\ ixs[i].bufferAccount = bufferAddress
              /\ ixs[i].offset = (i - 3) * chunkSize
        /\ ixs[n - 1].kind = "CreateAccount" /\ ixs[n - 1].newAccount = programAddress
        /\ ixs[n].kind = "DeployWithMaxDataLen" /\ ixs[n].bufferAccount = bufferAddress
        /\ \A i \in 1..n :
              ixs[i].kind \in {"InitializeBuffer", "Write"} => (1 < i /\ i < n)
        /\ binaryLen = 1900 =>
              /\ n = 7
              /\ <<ixs[3].offset, ixs[4].offset, ixs[5].offset>> = <<0, 900, 1800>>
              /\ <<Len(ixs[3].bytes), Len(ixs[4].bytes), Len(ixs[5].bytes)>>
                     = <<900, 900, 100>>

C4_Witness ==
    /\ pc = "planned"
    /\ binaryLen = 1900
    /\ Len(ixs) = 7
    /\ ixs[7].kind = "DeployWithMaxDataLen"

(***************************************************************************)
(* Claims about the executor                                               *)
(***************************************************************************)
HasKind(k, kinds) ==
    \E i \in Range(transactionPlan[k].instructions) : ixs[i].kind \in kinds

\* C5: when a message fails with every attempt ended by a lifetime-expiry
\* signal at broadcast, exactly maxRetries attempts were made, each a sign
\* request followed by a broadcast; the failure names that message and no
\* later message is attempted.  No message is ever attempted more often.
C5_RetryBound ==
    /\ txAttempts <= maxRetries
    /\ txPosts <= maxRetries
    /\ txSends <= maxRetries
    /\ (/\ pc = "failed"
        /\ lastError.origin = "sendTransaction"
        /\ IsBlockhashExpired(lastError)
        /\ txSends = txAttempts)
       => /\ txAttempts = maxRetries
          /\ txPosts = maxRetries
          /\ txSends = maxRetries
          /\ status[currentTx] = "failed"
          /\ \A j \in DOMAIN status :
                /\ j < currentTx => status[j] = "successful"
                /\ j > currentTx => status[j] = "canceled"

C5_Witness ==
    /\ pc = "failed"
    /\ lastError.origin = "sendTransaction"
    /\ IsBlockhashExpired(lastError)
    /\ txSends = maxRetries
    /\ txPosts = maxRetries
    /\ currentTx = 2
    /\ status = <<"successful", "failed", "canceled">>

\* C6: a broadcast failure that is no lifetime-expiry signal aborts the run
\* at once: the message is not attempted again and no later message is
\* signed or broadcast.
C6_NonExpiryAborts ==
    /\ (lastError.origin = "sendTransaction" /\ ~IsBlockhashExpired(lastError))
       => /\ pc = "failed"
          /\ step = "idle"
          /\ attempt = txAttempts
          /\ txSends <= txAttempts
          /\ status[currentTx] = "failed"
          /\ \A j \in DOMAIN status : j > currentTx => status[j] = "canceled"
    /\ \A k \in DOMAIN status :
          status[k] = "failed" => (pc = "failed" /\ step = "idle" /\ currentTx = k)

C6_Witness ==
    /\ pc = "failed"
    /\ lastError.origin = "sendTransaction"
    /\ ~IsBlockhashExpired(lastError)
    /\ txAttempts = 2
    /\ txSends = 2
    /\ currentTx = 2
    /\ status = <<"successful", "failed", "canceled">>

\* C7: messages are processed in plan order, one at a time: while a message
\* is in its token-fetch, signing, polling or broadcast step, every message
\* before it was broadcast successfully and no message after it was begun.
C7_Sequential ==
    /\ currentTx <= Len(transactionPlan)
    /\ (pc = "executing" /\ step # "idle") =>
          /\ currentTx \in DOMAIN status
          /\ \A j \in DOMAIN status :
                /\ j < currentTx => status[j] = "successful"
                /\ j >= currentTx => status[j] = "pending"
    /\ \A j \in DOMAIN status :
          /\ status[j] = "successful" => j <= currentTx
          /\ (j > currentTx /\ pc # "failed") => status[j] = "pending"

C7_Witness ==
    /\ step = "poll"
    /\ currentTx = 3
    /\ status = <<"successful", "successful", "pending">>

IsEscrowOp(ix) ==
    \/ ix.kind \in {"InitializeBuffer", "Write"}
    \/ ix.kind = "CreateAccount" /\ ix.newAccount = bufferAddress

HasEscrowOp(k) ==
    \E i \in Range(transactionPlan[k].instructions) : IsEscrowOp(ixs[i])

C9_OnlyBroadcastExpiryRetried ==
    /\ (pc = "executing" /\ step # "idle" /\ attempt >= 2)
       => (lastError.origin = "sendTransaction" /\ IsBlockhashExpired(lastError))
    /\ (/\ pc \in {"executing", "failed"}
        /\ lastError.origin \in {"getLatestBlockhash", "postTx", "getTx", "poll",
                                 "pollNoRaw", "pollTimeout"})
       => pc = "failed"

\* C10: the request of every signing attempt carries the lifetime token that
\* this attempt fetched itself: a token answered after the attempt began,
\* never one of an earlier attempt.
C10_FreshBlockhash ==
    /\ step \in {"postTx", "poll", "sendTransaction"} =>
          /\ latestBlockhash > attemptStartSlot
          /\ latestBlockhash = ledgerSlot
    /\ step \in {"poll", "sendTransaction"} =>
          /\ jsonBody.data.lifetimeToken = latestBlockhash
          /\ \A i \in 2..Len(jsonBody.signatures) :
                jsonBody.signatures[i].data.lifetimeToken = latestBlockhash
    /\ step = "sendTransaction" =>
          rawSignedTx.data.lifetimeToken = latestBlockhash

C10_Witness ==
    /\ step = "sendTransaction"
    /\ attempt = 2
    /\ currentTx = 2
    /\ attemptStartSlot = 2
    /\ rawSignedTx.data.lifetimeToken = 3

(***************************************************************************)
(* Claims about effects on the ledger, the signing request and the         *)
(* close-buffer utility                                                    *)
(***************************************************************************)
\* C11: retrying never duplicates an effect: the ledger accepts at most one
\* broadcast of each message of the plan over all its attempts, and none of
\* a message that did not end successful.
C11_NoDuplicateEffect ==
    /\ \A k \in DOMAIN ledgerAccepts : ledgerAccepts[k] <= 1
    /\ \A k \in DOMAIN status :
          /\ status[k] # "successful" => ledgerAccepts[k] = 0
          /\ status[k] = "successful" => ledgerAccepts[k] = 1

\* Two messages accepted once each after four lifetime tokens were fetched:
\* two attempts were made again.
C11_Witness ==
    /\ pc = "executing"
    /\ step = "idle"
    /\ status = <<"successful", "successful", "pending">>
    /\ ledgerAccepts = <<1, 1, 0>>
    /\ ledgerSlot = 4

\* C12: every signing request posted to the signer, for a message of the
\* deployment plan or for the close message, on a first or a later attempt,
\* carries a fee of type custom with unit price defaultFeeLamports.
C12_CustomFee ==
    /\ txPosts > 0 => jsonBody # NoRequest
    /\ jsonBody # NoRequest =>
          /\ jsonBody.fee.type = "custom"
          /\ jsonBody.fee.unit_price = defaultFeeLamports
          /\ jsonBody.fee.unit_price = 5000

C12_Witness ==
    /\ Reclaiming
    /\ step = "poll"
    /\ InstructionList[jsonBody.data.instructions[1]].kind = "Close"
    /\ jsonBody.fee = [type |-> "custom", unit_price |-> 5000]

\* C13: a run of the close-buffer utility on an address without account
\* reports 'does not exist' and submits nothing; of two runs in a row on a
\* funded buffer the first closes it and the second reports 'does not exist';
\* the buffer's lamports are moved to the vault at most once.
C13_ReclaimOnce ==
    /\ [](/\ reclaimed <= 1
          /\ pc = "reclaimNotFound" =>
                (bufferOnLedger = "absent" /\ txPosts = 0 /\ txSends = 0
                 /\ jsonBody = NoRequest)
          /\ Reclaiming => (reclaimed = 0 /\ bufferOnLedger = "funded")
          /\ pc = "reclaimSent" => (reclaimed = 1 /\ bufferOnLedger = "absent"))
    /\ [][(pc = "getAccountInfo" /\ (reclaimed >= 1 \/ bufferOnLedger = "absent"))
             => pc' \in {"reclaimNotFound", "reclaimError"}]_vars
    /\ [][(pc = "getAccountInfo" /\ pc' = "reclaimError")
             => lastError'.origin = "getAccountInfo"]_vars

C13_Witness ==
    /\ reclaimRun = 2
    /\ reclaimed = 1
    /\ pc = "reclaimNotFound"
    /\ bufferOnLedger = "absent"

\* C14: when the broadcast of the close transaction fails with a
\* lifetime-expiry signal, the utility signs again with a fresh token and
\* broadcasts again before it fails.
C14_ReclaimRetriesOnExpiry ==
    (/\ pc = "reclaimError"
     /\ lastError.origin = "closeSendTransaction"
     /\ IsBlockhashExpired(lastError))
    => (txPosts >= 2 /\ txSends >= 2)

EscrowCreated ==
    \E k \in DOMAIN transactionPlan :
        /\ ledgerAccepts[k] >= 1
        /\ \E i \in Range(transactionPlan[k].instructions) :
              ixs[i].kind = "CreateAccount" /\ ixs[i].newAccount = bufferAddress

FinalizeAccepted ==
    \E k \in DOMAIN transactionPlan :
        ledgerAccepts[k] >= 1 /\ HasKind(k, {"DeployWithMaxDataLen"})

\* C15: once a message of the plan has failed the run submits nothing more:
\* if the buffer was created and the deployment not accepted, the buffer
\* account stays funded on the ledger; the plan holds no close instruction
\* and the only step that follows is a run of the close-buffer utility.
C15_AbortLeavesEscrow ==
    /\ []((\E k \in DOMAIN status : status[k] = "failed") =>
             /\ pc = "failed"
             /\ step = "idle"
             /\ reclaimRun = 0
             /\ reclaimed = 0
             /\ \A i \in DOMAIN ixs : ixs[i].kind # "Close"
             /\ (EscrowCreated /\ ~FinalizeAccepted) => bufferOnLedger = "funded")
    /\ [][pc = "failed" =>
             /\ pc' = "getAccountInfo"
             /\ reclaimRun' = reclaimRun + 1
             /\ UNCHANGED <<ledgerAccepts, bufferOnLedger, reclaimed>>
             /\ jsonBody' = NoRequest]_vars

C15_Witness ==
    /\ pc = "failed"
    /\ status = <<"successful", "failed", "canceled">>
    /\ EscrowCreated
    /\ bufferOnLedger = "funded"
    /\ reclaimRun = 0

\* C16: when the signer reports failed, aborted or dropped, polling stops at
\* that answer.
C16_TerminalStateStopsPolling ==
    oracleState \in {"failed", "aborted", "dropped"} => step # "poll"

\* C17: pollForSignedTransaction makes at most maxAttempts status queries;
\* after maxAttempts non-terminal answers it makes no further query and
\* throws the timeout error, whose text differs from the texts thrown for a
\* reported failure.
C17_PollBounded ==
    /\ [](/\ pollAttempt <= maxAttempts
          /\ maxAttempts = 50
          /\ lastError.origin = "pollTimeout" =>
                lastError.message = "Timed out waiting for transaction to be signed"
          /\ lastError.origin \in {"poll", "pollNoRaw"} =>
                lastError.message # "Timed out waiting for transaction to be signed")
    /\ [][(step = "poll" /\ lastError'.origin = "pollTimeout")
             => pollAttempt = maxAttempts]_vars
    /\ [][(step = "poll" /\ pollAttempt = maxAttempts)
             => (step' # "poll" /\ lastError'.origin = "pollTimeout")]_vars

C17_Witness ==
    /\ pc = "failed"
    /\ lastError.origin = "pollTimeout"
    /\ lastError.message = "Timed out waiting for transaction to be signed"
    /\ txPosts = 1

(***************************************************************************)
(* Claims about batching                                                   *)
(***************************************************************************)
WritesIn(k) ==
    {i \in Range(transactionPlan[k].instructions) : ixs[i].kind = "Write"}

RECURSIVE ConcatInstructions(_, _)
ConcatInstructions(plan, k) ==
    IF k > Len(plan) THEN <<>>
    ELSE plan[k].instructions \o ConcatInstructions(plan, k + 1)

\* C19: the instructions of the messages, concatenated in message order, are
\* exactly the instruction list of the plan: none dropped, duplicated or moved.
C19_BatchingPreservesOrder ==
    pc = "planned" =>
        /\ ConcatInstructions(transactionPlan, 1) = [i \in 1..Len(ixs) |-> i]
        /\ \A k \in DOMAIN transactionPlan : transactionPlan[k].instructions # <<>>

C19_Witness ==
    /\ pc = "planned"
    /\ binaryLen = 577
    /\ Len(transactionPlan) = 2
    /\ ConcatInstructions(transactionPlan, 1) = <<1, 2, 3, 4, 5>>
    /\ transactionPlan[1].instructions = <<1, 2, 3, 4>>

\* C20: every write carries between 1 and chunkSize bytes; every write but
\* the last carries exactly chunkSize bytes and the last carries
\* L - chunkSize * (ceil(L / chunkSize) - 1) bytes; chunkProgramData splits
\* the binary the same way.
C20_ChunkSizes ==
    pc = "planned" =>
        LET w == WriteOps(ixs)
            n == Len(w)
            c == chunkProgramData(dataSize, chunkSize, 0, <<>>)
        IN
        /\ \A i \in 1..n : Len(w[i].bytes) >= 1 /\ Len(w[i].bytes) <= chunkSize
        /\ \A i \in 1..(n - 1) : Len(w[i].bytes) = chunkSize
        /\ n >= 1 => Len(w[n].bytes)
                        = binaryLen - chunkSize * (CeilDiv(binaryLen, chunkSize) - 1)
        /\ Len(c) = n
        /\ \A i \in 1..n : c[i].offset = w[i].offset /\ c[i].data = w[i].bytes

C20_Witness ==
    /\ pc = "planned"
    /\ binaryLen = 1900
    /\ Len(WriteOps(ixs)) = 3
    /\ Len(WriteOps(ixs)[3].bytes) = 100
    /\ Len(WriteOps(ixs)[2].bytes) = chunkSize

(***************************************************************************)
(* Claims about the attempt state, the signing adapter and the close       *)
(* utility                                                                 *)
(***************************************************************************)
\* The status of the transaction in hand, read off the executor's position:
\* before the lifetime token is fetched, while the signer is asked and
\* polled, with the raw transaction in hand, after the broadcast resolved,
\* after the executor recorded a failure.
TxStatus ==
    CASE status[currentTx] = "successful" -> "Confirmed"
      [] status[currentTx] = "failed" -> "Failed"
      [] step = "getLatestBlockhash" -> "Pending"
      [] step \in {"postTx", "poll"} -> "Signing"
      [] step = "sendTransaction" -> "Signed"
      [] OTHER -> "Pending"

\* A failure with reason LifetimeExpired: the broadcast was rejected with the
\* lifetime-expiry signal.
LifetimeExpired(error) ==
    error.origin = "sendTransaction" /\ IsBlockhashExpired(error)

\* C21: the status of a transaction moves only forward along Pending,
\* Signing, Signed, Broadcast, Confirmed, or to Failed; it returns to Pending
\* only from a failure with reason LifetimeExpired, at most maxRetries - 1
\* times; Confirmed and Failed are never left.
C21_StatusTransitions ==
    /\ [](pc = "executing" => txAttempts - 1 <= maxRetries - 1)
    /\ [][(/\ pc = "executing"
           /\ currentTx >= 1
           /\ currentTx' = currentTx
           /\ pc' \in {"executing", "failed"})
          => LET s == TxStatus
                 t == TxStatus'
             IN
             \/ s = t /\ attempt' = attempt
             \/ <<s, t>> \in {<<"Pending", "Signing">>, <<"Signing", "Signed">>,
                              <<"Signed", "Confirmed">>}
             \/ s \notin {"Confirmed", "Failed"} /\ t = "Failed"
             \/ /\ s \notin {"Confirmed", "Failed"}
                /\ t = "Pending"
                /\ attempt' = attempt + 1
                /\ attempt' <= maxRetries
                /\ LifetimeExpired(lastError')]_vars

\* C22: every attempt for one transaction signs the same instructions with
\* the same fee payer; between two requests for the same transaction only
\* the lifetime token, and the signatures made over it, differ.
C22_RetryKeepsContent ==
    /\ [](step \in {"poll", "sendTransaction"} =>
            /\ jsonBody.data.feePayer = Message.feePayer
            /\ jsonBody.data.instructions = Message.instructions
            /\ jsonBody.data.feePayer = deployerVault)
    /\ [][(pc = "executing" /\ pc' \in {"executing", "failed", "done"})
          => ixs' = ixs /\ transactionPlan' = transactionPlan]_vars
    /\ [][(/\ pc = "executing"
           /\ pc' \in {"executing", "failed"}
           /\ currentTx' = currentTx
           /\ jsonBody # NoRequest
           /\ jsonBody' # NoRequest
           /\ jsonBody' # jsonBody)
          => /\ jsonBody'.data.feePayer = jsonBody.data.feePayer
             /\ jsonBody'.data.instructions = jsonBody.data.instructions
             /\ [jsonBody' EXCEPT !.data = 0, !.signatures = 0]
                   = [jsonBody EXCEPT !.data = 0, !.signatures = 0]
             /\ Len(jsonBody'.signatures) = Len(jsonBody.signatures)
             /\ \A i \in 1..Len(jsonBody.signatures) :
                   jsonBody'.signatures[i].data.by = jsonBody.signatures[i].data.by
             /\ jsonBody'.data.lifetimeToken > jsonBody.data.lifetimeToken]_vars

C22_Witness ==
    /\ pc = "executing"
    /\ binaryLen = chunkSize + 400
    /\ currentTx = 1
    /\ attempt = maxRetries
    /\ step = "poll"
    /\ txPosts = maxRetries
    /\ jsonBody.data.instructions = <<1, 2>>
    /\ jsonBody.data.lifetimeToken = maxRetries

\* The ledger took something in this step: a broadcast was accepted.
LedgerChanged ==
    \/ bufferOnLedger' # bufferOnLedger
    \/ reclaimed' # reclaimed
    \/ pc # "start" /\ ledgerAccepts' # ledgerAccepts

\* C23: every signing request is posted with push_mode manual, and the ledger
\* accepts a transaction only in the broadcast step of the caller, made with
\* the raw transaction the signer returned for the request of this attempt;
\* fetching the token, posting and polling leave the ledger alone.
C23_OnlyExecutorBroadcasts ==
    /\ [](jsonBody # NoRequest => jsonBody.push_mode = "manual")
    /\ [][LedgerChanged =>
            /\ step = "sendTransaction"
            /\ jsonBody.push_mode = "manual"
            /\ rawSignedTx # NoRawTx
            /\ rawSignedTx = RawTransaction(jsonBody)
            /\ rawSignedTx.data.lifetimeToken = latestBlockhash
            /\ oracleState \in {"signed", "pushed", "mined"}]_vars
    /\ [][(step \in {"getLatestBlockhash", "postTx", "poll"})
          => (UNCHANGED <<ledgerAccepts, bufferOnLedger, reclaimed>>)]_vars

C23_Witness ==
    /\ pc = "reclaimSent"
    /\ reclaimed = 1
    /\ txPosts = 1
    /\ txSends = 1
    /\ jsonBody.push_mode = "manual"
    /\ rawSignedTx = RawTransaction(jsonBody)
    /\ bufferOnLedger = "absent"

\* C24: polling ends successfully at the first observation of signed or of a
\* state past signed (pushed, mined): while a wait for signed is still
\* polling, the state last observed is none of these.
C24_PastSignedReturns ==
    pc = "waitForSigned" =>
        oracleState \notin {"signed", "pushed_to_blockchain", "mined", "completed"}

\* C25: a signed, pushed or mined answer without raw transaction makes the
\* adapter throw at that observation; the error is not retried, the run ends
\* there, and no broadcast is made with an empty transaction.
C25_MissingRawIsFatal ==
    /\ [](step = "sendTransaction" =>
            /\ rawSignedTx # NoRawTx
            /\ rawSignedTx = RawTransaction(jsonBody))
    /\ [](oracleState = "signedNoRaw" =>
            /\ lastError = LocalError("pollNoRaw")
            /\ ~IsBlockhashExpired(lastError)
            /\ step = "idle"
            /\ pc \in {"failed", "reclaimError"})
    /\ [][oracleState' = "signedNoRaw" /\ oracleState # "signedNoRaw" =>
            /\ step = "poll"
            /\ step' = "idle"
            /\ txSends' = txSends
            /\ txPosts' = txPosts
            /\ attempt' = attempt
            /\ rawSignedTx' = rawSignedTx
            /\ ~LedgerChanged]_vars

C25_Witness ==
    /\ pc = "failed"
    /\ oracleState = "signedNoRaw"
    /\ lastError.origin = "pollNoRaw"
    /\ currentTx = 2
    /\ attempt = 1
    /\ status[2] = "failed"
    /\ txPosts = 1
    /\ txSends = 0
    /\ ledgerAccepts[2] = 0

\* C26: a run of the close utility on an existing buffer posts one request
\* and makes one broadcast; the transaction holds one instruction, a Close
\* of the given buffer address with the deployer vault as authority and as
\* destination, and its acceptance empties the buffer account that the
\* lookup had found.
C26_ReclaimSingleClose ==
    /\ [](Reclaiming =>
            /\ Len(InstructionList) = 1
            /\ Message.instructions = <<1>>
            /\ Message.feePayer = deployerVault
            /\ InstructionList[1].kind = "Close"
            /\ InstructionList[1].bufferOrProgramDataAccount = bufferAddress
            /\ InstructionList[1].destinationAccount = deployerVault
            /\ InstructionList[1].authority = deployerVault
            /\ txPosts <= 1
            /\ txSends = 0
            /\ (jsonBody # NoRequest => jsonBody.data.instructions = <<1>>))
    /\ [](pc = "reclaimSent" =>
            /\ txPosts = 1
            /\ txSends = 1
            /\ rawSignedTx.data.instructions = <<1>>
            /\ bufferOnLedger = "absent")
    /\ [][reclaimed' # reclaimed =>
            /\ Reclaiming
            /\ reclaimed' = reclaimed + 1
            /\ bufferOnLedger = "funded"
            /\ bufferOnLedger' = "absent"
            /\ pc' = "reclaimSent"]_vars

C26_Witness ==
    /\ pc = "reclaimSent"
    /\ reclaimRun = 1
    /\ reclaimed = 1
    /\ binaryLen = chunkSize
    /\ ledgerAccepts = <<1, 0, 0>>
    /\ bufferOnLedger = "absent"
    /\ jsonBody.data.instructions = <<1>>

\* C27: when the lookup of the close utility finds no account the run ends
\* at the lookup: no lifetime token is fetched, no request is posted to the
\* signer, nothing is broadcast, and the ledger is left as it was.
C27_NotFoundStops ==
    /\ [](pc = "reclaimNotFound" =>
            /\ step = "idle"
            /\ latestBlockhash = 0
            /\ jsonBody = NoRequest
            /\ rawSignedTx = NoRawTx
            /\ txAttempts = 0
            /\ txPosts = 0
            /\ txSends = 0)
    /\ [](pc = "reclaimSigning" => bufferOnLedger # "absent")
    /\ [][(pc = "getAccountInfo" /\ bufferOnLedger = "absent")
          => /\ pc' \in {"reclaimNotFound", "reclaimError"}
             /\ step' = "idle"
             /\ UNCHANGED <<ledgerSlot, latestBlockhash, jsonBody, rawSignedTx,
                            txPosts, txSends, ledgerAccepts, bufferOnLedger,
                            reclaimed>>]_vars
    /\ [][pc = "reclaimNotFound" => pc' = "getAccountInfo"]_vars

C27_Witness ==
    /\ pc = "reclaimNotFound"
    /\ reclaimRun = 1
    /\ reclaimed = 0
    /\ ledgerSlot = 0
    /\ bufferOnLedger = "absent"
    /\ jsonBody = NoRequest

(***************************************************************************)
(* Claims about rent, head room and planning failures                      *)
(***************************************************************************)
\* The instructions built so far that create the buffer account.
CreateBufferOps ==
    SelectSeq(ixs, LAMBDA ix : ix.kind = "CreateAccount" /\ ix.newAccount = bufferAddress)

\* C28: every instruction that creates the buffer account has
\* space = payload length + BUFFER_HEADER_SIZE and lamports equal to the
\* ledger's rent-exemption answer for that size, never a locally computed
\* amount.
C28_EscrowSpaceAndRent ==
    \A i \in 1..Len(CreateBufferOps) :
        /\ CreateBufferOps[i].space = binaryLen + BUFFER_HEADER_SIZE
        /\ CreateBufferOps[i].lamports = RentExemption(CreateBufferOps[i].space)

\* C29: every deploy instruction carries maxDataLen = payload length +
\* UPGRADE_HEADROOM, which is strictly greater than the payload length.
C29_MaxDataLen ==
    \A i \in 1..Len(ixs) :
        ixs[i].kind = "DeployWithMaxDataLen" =>
            /\ ixs[i].maxDataLen = binaryLen + UPGRADE_HEADROOM
            /\ ixs[i].maxDataLen > binaryLen

\* C30: when a rent-exemption query fails, createTxPlan fails and returns no
\* plan: no instruction list, no message, no request to the signer and no
\* broadcast exist afterwards; a plan is only ever returned with both rent
\* answers in it.
C30_RentFailureNoPlan ==
    /\ [](pc = "planError" =>
            /\ ixs = <<>>
            /\ transactionPlan = <<>>
            /\ status = <<>>
            /\ currentTx = 0
            /\ step = "idle"
            /\ ledgerSlot = 0
            /\ jsonBody = NoRequest
            /\ rawSignedTx = NoRawTx
            /\ txPosts = 0
            /\ txSends = 0
            /\ ledgerAccepts = <<>>
            /\ bufferOnLedger = "absent")
    /\ [](pc \in {"planned", "executing", "failed", "done"} =>
            \A i \in 1..Len(ixs) :
                ixs[i].kind = "CreateAccount" =>
                    ixs[i].lamports = RentExemption(ixs[i].space))
    /\ [][pc = "planError" => pc' = "getAccountInfo"]_vars

C30_Witness ==
    /\ pc = "planError"
    /\ binaryLen = chunkSize + 400
    /\ reclaimRun = 0
    /\ transactionPlan = <<>>
    /\ txPosts = 0

(***************************************************************************)
(* Claims about failures, signatures, termination and the written data     *)
(***************************************************************************)
\* C31: when the fee payer's balance is below the rent of the buffer account,
\* the run fails before anything is handed to the signer: no signing request
\* is posted and nothing is broadcast.
C31_InsufficientFundsFirst ==
    (pc \in {"planned", "executing", "failed", "done"} /\ balance < ixs[1].lamports)
    => /\ step \notin {"getLatestBlockhash", "postTx", "poll", "sendTransaction"}
       /\ jsonBody = NoRequest
       /\ txPosts = 0
       /\ txSends = 0
       /\ currentTx = 0

\* C32: the report of a failed run names the failing transaction and prints
\* the message of the deepest cause of the error's cause chain, in both
\* deployment mains.
C32_DeepestCauseReported ==
    pc = "failed" =>
        /\ status[currentTx] = "failed"
        /\ getRootCause(CauseChain(lastError), 1) = Len(CauseChain(lastError))
        /\ RunCause(CauseChain(lastError)) = Len(CauseChain(lastError))

\* C33: the signatures array of every request has one entry per required
\* signer of the message; the first entry, and only the first, is the null
\* placeholder of the fee payer; each entry behind it is the signature one
\* of the other required signers made locally over this message.
C33_SignaturesArray ==
    (jsonBody # NoRequest /\ (pc = "executing" \/ Reclaiming)) =>
        LET sigs == jsonBody.signatures
            required == MessageSigners(InstructionList, Message)
        IN
        /\ Len(sigs) = Cardinality(required)
        /\ Message.feePayer \in required
        /\ sigs[1].data = NullSignature
        /\ \A i \in 2..Len(sigs) :
              /\ sigs[i].data # NullSignature
              /\ sigs[i].data.by \in required \ {Message.feePayer}
              /\ sigs[i].data.lifetimeToken = jsonBody.data.lifetimeToken
        /\ \A a \in required \ {Message.feePayer} :
              \E i \in 2..Len(sigs) : sigs[i].data.by = a
        /\ \A i, j \in 2..Len(sigs) : sigs[i].data.by = sigs[j].data.by => i = j

C33_Witness ==
    /\ pc = "executing"
    /\ binaryLen = 0
    /\ step = "poll"
    /\ Len(jsonBody.signatures) = 3
    /\ jsonBody.signatures[1].data = NullSignature
    /\ jsonBody.signatures[2].data.by = bufferAddress
    /\ jsonBody.signatures[3].data.by = programAddress

\* C34: no request sent to the signer carries secret key material of the
\* buffer or program keypair; those keypairs sign locally and only their
\* signatures are sent.
C34_NoKeyMaterialSent ==
    jsonBody # NoRequest =>
        /\ \/ "ephemeral_signing_keys" \notin DOMAIN jsonBody
           \/ jsonBody.ephemeral_signing_keys = <<>>
        /\ "signatures" \in DOMAIN jsonBody =>
              \A i \in 1..Len(jsonBody.signatures) :
                  "secretKeyOf" \notin DOMAIN jsonBody.signatures[i].data

\* The run has ended: the plan could not be built, a transaction failed for
\* good, or 'Transaction plan executed' was reached.
RunEnded == pc \in {"planError", "failed", "done"}

\* C35: a deployment run always terminates, whatever the signer and the
\* ledger answer.  For each transaction of the plan it makes at most
\* maxRetries signing requests and at most maxRetries broadcasts (hence at
\* most T * maxRetries of each for T transactions), at most maxAttempts status
\* polls per signing request, and it ends with every transaction broadcast or
\* with a failure.
C35_RunTerminates ==
    /\ [](/\ attempt <= maxRetries + 1
          /\ txPosts <= maxRetries
          /\ txSends <= maxRetries
          /\ (step = "sendTransaction" => txSends < maxRetries)
          /\ pollAttempt <= maxAttempts
          /\ (pc = "done" => \A k \in 1..Len(transactionPlan) :
                                 status[k] = "successful" /\ ledgerAccepts[k] >= 1)
          /\ (pc = "failed" => lastError # NoError))
    /\ <>RunEnded

\* A run that reached the last transaction of its plan and ended in failure
\* after maxRetries signing requests and maxRetries broadcasts of it.
C35_Witness ==
    /\ pc = "failed"
    /\ txPosts = maxRetries
    /\ txSends = maxRetries
    /\ currentTx = Len(transactionPlan)

\* The run completed: 'Transaction plan executed' with every transaction of
\* the plan accepted by the ledger exactly once.
RunCompleted ==
    /\ pc = "done"
    /\ \A k \in 1..Len(transactionPlan) :
          status[k] = "successful" /\ ledgerAccepts[k] = 1

\* The ledger accepted the transactions in plan order.
AcceptedInPlanOrder ==
    \A k \in DOMAIN ledgerAccepts :
        (k > 1 /\ ledgerAccepts[k] >= 1) => ledgerAccepts[k - 1] >= 1

\* The signer did not report signed with a raw transaction for a request.
SignerFailed ==
    lastError.origin \in {"postTx", "getTx", "poll", "pollNoRaw", "pollTimeout"}

\* A broadcast failed otherwise than by lifetime expiry, or maxRetries
\* broadcasts of one transaction failed.
BroadcastFailed ==
    \/ lastError.origin = "sendTransaction" /\ ~IsBlockhashExpired(lastError)
    \/ txSends >= maxRetries

DeployPosition ==
    LET msg == transactionPlan[Len(transactionPlan)]
    IN CHOOSE n \in 1..Len(msg.instructions) :
           ixs[msg.instructions[n]].kind = "DeployWithMaxDataLen"

\* The write instructions the ledger has applied to the buffer before it
\* executes instruction j of message k: those of the accepted messages before
\* k, and those before j in message k itself (a transaction is executed
\* instruction by instruction).  Pairs <<message, position>>.
WritesAppliedBefore(k, j) ==
    {<<m, n>> \in (1..k) \X (1..Len(ixs)) :
        /\ n <= Len(transactionPlan[m].instructions)
        /\ ixs[transactionPlan[m].instructions[n]].kind = "Write"
        /\ \/ m < k /\ ledgerAccepts[m] >= 1
           \/ m = k /\ n < j}

WriteAt(w) == ixs[transactionPlan[w[1]].instructions[w[2]]]

\* The writes of a set that cover byte p (0-based) of the data region.
Covering(writes, p) ==
    {w \in writes : WriteAt(w).offset <= p /\ p < WriteAt(w).offset + Len(WriteAt(w).bytes)}

\* The data region of the buffer after the writes, L bytes, unwritten bytes
\* being zero.
DataRegion(writes, L) ==
    [i \in 1..L |->
        IF Covering(writes, i - 1) = {} THEN 0
        ELSE LET w == WriteAt(CHOOSE c \in Covering(writes, i - 1) : TRUE)
             IN w.bytes[i - w.offset]]

\* Every byte of [0, L) is covered by one write, applied once, and no write
\* reaches outside [0, L).
WrittenExactlyOnce(writes, L) ==
    /\ \A p \in 0..(L - 1) : Cardinality(Covering(writes, p)) = 1
    /\ \A w \in writes :
          /\ ledgerAccepts[w[1]] = 1
          /\ WriteAt(w).offset >= 0
          /\ WriteAt(w).offset + Len(WriteAt(w).bytes) <= L
          /\ WriteAt(w).dataLen = 16 + Len(WriteAt(w).bytes)

MaxSmallChunk == 3      \* chunk sizes 1..MaxSmallChunk are tried on short payloads
SmallPayloadLen == 8    \* length of the short payloads

\* The while loop of createTxPlan, `offset += size` over slices.
RECURSIVE plannerChunks(_, _, _, _)
plannerChunks(data, size, offset, acc) ==
    IF offset < Len(data)
    THEN plannerChunks(data, size, offset + size,
            Append(acc, [offset |-> offset, data |-> Slice(data, offset, offset + size)]))
    ELSE acc

\* Variant of writeToBufferChunks: the number of chunks is rounded down.
RECURSIVE writeToBufferChunks_Floor(_, _, _, _)
writeToBufferChunks_Floor(programData, size, i, acc) ==
    IF i < Len(programData) \div size
    THEN LET offset == i * size
             end == Min(offset + size, Len(programData))
         IN writeToBufferChunks_Floor(programData, size, i + 1,
                Append(acc, [offset |-> offset, data |-> Slice(programData, offset, end)]))
    ELSE acc

\* The index loop of writeToBuffer: chunks = ceil(length / size),
\* offset = i * size, end = min(offset + size, length).
RECURSIVE writeToBufferChunks(_, _, _, _)
writeToBufferChunks(programData, size, i, acc) ==
    IF i < CeilDiv(Len(programData), size)
    THEN LET offset == i * size
             end == Min(offset + size, Len(programData))
         IN writeToBufferChunks(programData, size, i + 1,
                Append(acc, [offset |-> offset, data |-> Slice(programData, offset, end)]))
    ELSE acc

\* calculateWriteTransactions(programDataLen, chunkSize)
calculateWriteTransactions(programDataLen, size) == CeilDiv(programDataLen, size)

\* The three loops give the same (offset, bytes) pairs on a payload, as many
\* as calculateWriteTransactions says.
ChunkingsAgree(data, size) ==
    LET c == chunkProgramData(data, size, 0, <<>>)
    IN /\ plannerChunks(data, size, 0, <<>>) = c
       /\ writeToBufferChunks(data, size, 0, <<>>) = c
       /\ Len(c) = calculateWriteTransactions(Len(data), size)

\* Chunk sizes around the one of the code, tried on the whole payload.
LargeChunkSizes == {chunkSize \div 2, chunkSize - 1, chunkSize, chunkSize + 1}

\* C38: for every payload and every chunk size >= 1 the loop of the planner,
\* the generator chunkProgramData and the index loop of writeToBuffer give the
\* same sequence of (offset, bytes) pairs, of length
\* calculateWriteTransactions(L, chunkSize); chunkProgramData ends on all of
\* them.  The writes of the plan are that sequence for the chunk size of the
\* code.
C38_ChunkingsAgree ==
    pc = "planned" =>
        /\ \A size \in LargeChunkSizes : ChunkingsAgree(dataSize, size)
        /\ \A size \in 1..MaxSmallChunk :
              ChunkingsAgree(Slice(dataSize, 0, SmallPayloadLen), size)
        /\ chunkSize = MAX_CHUNK_SIZE
        /\ LET w == WriteOps(ixs)
               c == writeToBufferChunks(dataSize, MAX_CHUNK_SIZE, 0, <<>>)
           IN /\ Len(w) = Len(c)
              /\ \A i \in 1..Len(w) : [offset |-> w[i].offset, data |-> w[i].bytes] = c[i]

\* A payload of two full chunks and a byte: three chunks by every loop, the
\* last of one byte.
C38_Witness ==
    /\ pc = "planned"
    /\ binaryLen = 2 * chunkSize + 1
    /\ Len(writeToBufferChunks(dataSize, MAX_CHUNK_SIZE, 0, <<>>)) = 3
    /\ Len(writeToBufferChunks(dataSize, MAX_CHUNK_SIZE, 0, <<>>)[3].data) = 1
    /\ Len(chunkProgramData(Slice(dataSize, 0, SmallPayloadLen), MaxSmallChunk, 0, <<>>)) = 3

====
